---- MODULE Spec2Model ----
(***************************************************************************)
(* Model of TravelCalculator (custom_components/cover_time_based/          *)
(* travelcalculator.py): the time-based position estimator of a cover.     *)
(*                                                                         *)
(* Times are whole seconds.  The Python code computes with floats; here    *)
(* every quotient is kept as an exact fraction and only the final int()    *)
(* truncates, and calculate_travel_time is carried in hundredths of a      *)
(* second so that travel_range / 100 stays exact.  Where the exact value   *)
(* of last_known_position + relative_position * progress is a whole        *)
(* number with 0 < progress < 1, the double the code computes can be one   *)
(* ulp below it and int() then returns one less than the value here; the   *)
(* properties below do not rest on such a value.  A ZeroDivisionError is   *)
(* a result of its own, and a call that raises changes nothing.            *)
(***************************************************************************)
EXTENDS Integers, FiniteSets, Sequences, TLC

\* ------------------------------------------------------------------ bounds
\* the clock takes the values 0, 10, 20, ..., 10 * MaxTick
MaxTick == 3
\* number of state-changing calls made on the estimator in one behaviour
MaxCalls == 3

\* --------------------------------------------------------------- the inputs
ClockValues == {10 * k : k \in 0..MaxTick}
\* positions reported through set_position
SetPositions == {0, 1, 90}
\* positions reported through update_position
UpdatePositions == {10, 60}
\* targets given to start_travel (the wrappers add 0 and 100)
TravelTargets == {10, 60}
\* targets given to start_travel_tilt (the wrappers add 0 and 100)
TiltTargets == {60}
\* constructor arguments
\*   <<travel_time_down, travel_time_up, slats_open_time, slats_close_time>>
Configs == { <<100, 100, 0, 0>>,
             <<100, 100, 20, 20>>,
             <<100, 100, 0, 20>>,
             <<20, 100, 0, 0>>,
             <<20, 20, 20, 20>>,
             <<0, 0, 0, 0>> }

\* ---------------------------------------------------------- program values
\* Python's None for "int | None" fields and results
None == -1
\* the result of an evaluation that raises ZeroDivisionError
ZeroDivisionError == -2
position_closed == 100
position_open == 0
DIRECTION_UP == "DIRECTION_UP"
DIRECTION_DOWN == "DIRECTION_DOWN"
STOPPED == "STOPPED"
TravelStatus == {DIRECTION_UP, DIRECTION_DOWN, STOPPED}

VARIABLES
    travel_direction,
    travel_time_down,
    travel_time_up,
    slats_open_time,
    slats_close_time,
    last_known_position,
    last_known_position_timestamp,
    position_confirmed,
    travel_to_position,
    now,        \* the value time.time() returns
    call,       \* the last state-changing call: what it was given and what it saw
    calls       \* how many state-changing calls were made

config == <<travel_time_down, travel_time_up, slats_open_time, slats_close_time>>
state == <<travel_direction, last_known_position, last_known_position_timestamp,
           position_confirmed, travel_to_position>>
vars == <<config, state, now, call, calls>>

\* the mutable fields of the estimator, as one value
Self == [travel_direction |-> travel_direction,
         last_known_position |-> last_known_position,
         last_known_position_timestamp |-> last_known_position_timestamp,
         position_confirmed |-> position_confirmed,
         travel_to_position |-> travel_to_position]

\* ------------------------------------------------------------- arithmetic
abs(x) == IF x < 0 THEN -x ELSE x

\* int(n / d): Python's int() truncates toward zero
int(n, d) ==
    IF (n < 0) # (d < 0) THEN -(abs(n) \div abs(d)) ELSE abs(n) \div abs(d)

\* calculate_travel_time(from_position, to_position), in hundredths of a second
calculate_travel_time(from_position, to_position) ==
    LET travel_range == abs(to_position - from_position)
        travel_time_full == IF from_position > to_position
                            THEN travel_time_down ELSE travel_time_up
        slats_time == IF from_position = 0 \/ to_position = 0
                      THEN (IF from_position > to_position
                            THEN slats_close_time ELSE slats_open_time)
                      ELSE 0
    IN  (travel_time_full - slats_time) * travel_range + 100 * slats_time

position_reached_or_exceeded(self, relative_position) ==
    \/ relative_position <= 0 /\ self.travel_direction = DIRECTION_DOWN
    \/ relative_position >= 0 /\ self.travel_direction = DIRECTION_UP

\* the slats time _calculate_position applies
position_slats_time(self) ==
    IF self.last_known_position = 0 \/ self.travel_to_position = 0
    THEN (IF self.travel_direction = DIRECTION_DOWN
          THEN slats_close_time ELSE slats_open_time)
    ELSE 0

\* int(last_known_position + relative_position * progress) while
\* elapsed_time < slats_time: progress = elapsed_time / slats_time * 0.1
slats_phase_position(self, elapsed_time, slats_time) ==
    IF slats_time = 0 THEN ZeroDivisionError
    ELSE int(self.last_known_position * 10 * slats_time
             + (self.travel_to_position - self.last_known_position) * elapsed_time,
             10 * slats_time)

\* int(last_known_position + relative_position * progress) after the slats:
\* progress = (elapsed_time - slats_time) / (remaining_travel_time - slats_time)
\* with remaining_travel_time in hundredths
normal_phase_position(self, elapsed_time, slats_time, remaining_travel_time) ==
    LET rest == remaining_travel_time - 100 * slats_time
    IN  IF rest = 0 THEN ZeroDivisionError
        ELSE int(self.last_known_position * rest
                 + (self.travel_to_position - self.last_known_position)
                   * (elapsed_time - slats_time) * 100,
                 rest)

\* mutant of calculate_position: an unknown position reads as 0
calculate_position_zero(self, t) ==
    IF self.last_known_position = None THEN 0
    ELSE IF self.travel_to_position = None THEN self.last_known_position
    ELSE LET elapsed_time == t - self.last_known_position_timestamp
             slats_time == position_slats_time(self)
             remaining_travel_time ==
                 calculate_travel_time(self.last_known_position,
                                       self.travel_to_position)
         IN  IF position_reached_or_exceeded(
                    self, self.travel_to_position - self.last_known_position)
                \/ 100 * elapsed_time > remaining_travel_time
             THEN self.travel_to_position
             ELSE IF elapsed_time < slats_time
             THEN slats_phase_position(self, elapsed_time, slats_time)
             ELSE normal_phase_position(self, elapsed_time, slats_time,
                                        remaining_travel_time)

\* mutant of calculate_position: the travel is cut off at twice its time
calculate_position_late(self, t) ==
    IF self.travel_to_position = None \/ self.last_known_position = None
    THEN self.last_known_position
    ELSE LET elapsed_time == t - self.last_known_position_timestamp
             slats_time == position_slats_time(self)
             remaining_travel_time ==
                 calculate_travel_time(self.last_known_position,
                                       self.travel_to_position)
         IN  IF position_reached_or_exceeded(
                    self, self.travel_to_position - self.last_known_position)
                \/ 100 * elapsed_time > 2 * remaining_travel_time
             THEN self.travel_to_position
             ELSE IF elapsed_time < slats_time
             THEN slats_phase_position(self, elapsed_time, slats_time)
             ELSE normal_phase_position(self, elapsed_time, slats_time,
                                        remaining_travel_time)

\* _calculate_position() on the estimator self when time.time() returns t
calculate_position(self, t) ==
    IF self.travel_to_position = None \/ self.last_known_position = None
    THEN self.last_known_position
    ELSE
    LET relative_position == self.travel_to_position - self.last_known_position
        remaining_travel_time ==
            calculate_travel_time(self.last_known_position, self.travel_to_position)
        elapsed_time == t - self.last_known_position_timestamp
        slats_time == position_slats_time(self)
    IN  IF position_reached_or_exceeded(self, relative_position)
        THEN self.travel_to_position
        ELSE IF 100 * elapsed_time > remaining_travel_time
        THEN self.travel_to_position
        ELSE IF elapsed_time < slats_time
        THEN slats_phase_position(self, elapsed_time, slats_time)
        ELSE normal_phase_position(self, elapsed_time, slats_time,
                                   remaining_travel_time)

\* mutant of position_at: extrapolates a confirmed position too
position_at_extrapolating(self, t) == calculate_position(self, t)

\* current_position() on the estimator self when time.time() returns t
position_at(self, t) ==
    IF ~self.position_confirmed THEN calculate_position(self, t)
    ELSE self.last_known_position

current_position == position_at(Self, now)

\* the predicates; each of them raises whenever current_position() raises
raises == current_position = ZeroDivisionError
is_traveling == current_position # travel_to_position
is_opening == is_traveling /\ travel_direction = DIRECTION_UP
is_closing == is_traveling /\ travel_direction = DIRECTION_DOWN
position_reached == current_position = travel_to_position
is_open == current_position = position_open
is_closed == current_position = position_closed

\* ------------------------------------------------- the calls, as functions
\* each gives the estimator a call leaves behind when time.time() returns t;
\* a call that raises leaves the estimator as it found it

after_set_position(self, position, t) ==
    [self EXCEPT !.last_known_position = position,
                 !.last_known_position_timestamp = t,
                 !.position_confirmed = TRUE]

\* mutant of after_update_position: a report other than the target unconfirms
after_update_position_resetting(self, position, t) ==
    [self EXCEPT !.last_known_position = position,
                 !.last_known_position_timestamp = t,
                 !.position_confirmed = (position = self.travel_to_position)]

after_update_position(self, position, t) ==
    [self EXCEPT !.last_known_position = position,
                 !.last_known_position_timestamp = t,
                 !.position_confirmed =
                     IF position = self.travel_to_position THEN TRUE ELSE @]

stop_raises(self, t) == position_at(self, t) = ZeroDivisionError

after_stop(self, t) ==
    LET stop_position == position_at(self, t)
    IN  IF stop_position = ZeroDivisionError \/ stop_position = None THEN self
        ELSE [self EXCEPT !.last_known_position = stop_position,
                          !.travel_to_position = stop_position,
                          !.position_confirmed = FALSE,
                          !.travel_direction = STOPPED]

start_travel_raises(self, t) ==
    self.last_known_position # None /\ stop_raises(self, t)

\* mutant of after_start_travel: no fallback for an unknown position
after_start_travel_unguarded(self, target, t) ==
    IF stop_raises(self, t) THEN self
    ELSE LET stopped == after_stop(self, t)
         IN  [stopped EXCEPT !.last_known_position_timestamp = t,
                             !.travel_to_position = target,
                             !.position_confirmed = FALSE,
                             !.travel_direction =
                                 IF target > stopped.last_known_position
                                 THEN DIRECTION_DOWN ELSE DIRECTION_UP]

\* mutant of after_start_travel: the direction test is reversed
after_start_travel_reversed(self, target, t) ==
    IF self.last_known_position = None THEN after_set_position(self, target, t)
    ELSE IF stop_raises(self, t) THEN self
    ELSE LET stopped == after_stop(self, t)
         IN  [stopped EXCEPT !.last_known_position_timestamp = t,
                             !.travel_to_position = target,
                             !.position_confirmed = FALSE,
                             !.travel_direction =
                                 IF target < stopped.last_known_position
                                 THEN DIRECTION_DOWN ELSE DIRECTION_UP]

after_start_travel(self, target, t) ==
    IF self.last_known_position = None THEN after_set_position(self, target, t)
    ELSE IF stop_raises(self, t) THEN self
    ELSE LET stopped == after_stop(self, t)
         IN  [stopped EXCEPT !.last_known_position_timestamp = t,
                             !.travel_to_position = target,
                             !.position_confirmed = FALSE,
                             !.travel_direction =
                                 IF target > stopped.last_known_position
                                 THEN DIRECTION_DOWN ELSE DIRECTION_UP]

start_travel_tilt_raises(self, t) ==
    self.last_known_position # None /\ stop_raises(self, t)

after_start_travel_tilt(self, target, t) ==
    IF self.last_known_position = None THEN after_set_position(self, target, t)
    ELSE IF stop_raises(self, t) THEN self
    ELSE LET stopped == after_stop(self, t)
         IN  [stopped EXCEPT !.last_known_position_timestamp = t,
                             !.travel_to_position = target,
                             !.position_confirmed = FALSE,
                             !.travel_direction =
                                 IF target > stopped.last_known_position
                                 THEN DIRECTION_DOWN ELSE DIRECTION_UP]

\* ------------------------------------------------------------------- Init
Init ==
    /\ travel_direction = STOPPED
    /\ \E c \in Configs :
          /\ travel_time_down = c[1]
          /\ travel_time_up = c[2]
          /\ slats_open_time = c[3]
          /\ slats_close_time = c[4]
    /\ last_known_position = None
    /\ last_known_position_timestamp = 0
    /\ position_confirmed = FALSE
    /\ travel_to_position = None
    /\ now = 0
    /\ call = [op |-> "__init__", arg |-> None, raised |-> FALSE, at |-> 0,
               position |-> None, before |-> Self]
    /\ calls = 0

\* the estimator becomes s
Becomes(s) ==
    /\ travel_direction' = s.travel_direction
    /\ last_known_position' = s.last_known_position
    /\ last_known_position_timestamp' = s.last_known_position_timestamp
    /\ position_confirmed' = s.position_confirmed
    /\ travel_to_position' = s.travel_to_position

\* what a call records: its name and argument, whether it raised, the clock,
\* the estimator as the call found it and the position it had then
Called(op, arg, raised) ==
    /\ calls < MaxCalls
    /\ calls' = calls + 1
    /\ call' = [op |-> op, arg |-> arg, raised |-> raised, at |-> now,
                position |-> current_position, before |-> Self]
    /\ UNCHANGED <<config, now>>

\* the clock advances; nothing else changes
Tick ==
    /\ now + 10 \in ClockValues
    /\ now' = now + 10
    /\ UNCHANGED <<config, state, call, calls>>

set_position(position) ==
    /\ Becomes(after_set_position(Self, position, now))
    /\ Called("set_position", position, FALSE)

update_position(position) ==
    /\ Becomes(after_update_position(Self, position, now))
    /\ Called("update_position", position, FALSE)

stop ==
    /\ Becomes(after_stop(Self, now))
    /\ Called("stop", None, stop_raises(Self, now))

start_travel(target) ==
    /\ Becomes(after_start_travel(Self, target, now))
    /\ Called("start_travel", target, start_travel_raises(Self, now))

start_travel_up == start_travel(position_open)

start_travel_down == start_travel(position_closed)

start_travel_tilt(target) ==
    /\ Becomes(after_start_travel_tilt(Self, target, now))
    /\ Called("start_travel_tilt", target, start_travel_tilt_raises(Self, now))

start_travel_tilt_up == start_travel_tilt(position_open)

start_travel_tilt_down == start_travel_tilt(position_closed)

Next ==
    \/ Tick
    \/ \E p \in SetPositions : set_position(p)
    \/ \E p \in UpdatePositions : update_position(p)
    \/ stop
    \/ \E p \in TravelTargets : start_travel(p)
    \/ start_travel_up
    \/ start_travel_down
    \/ \E p \in TiltTargets : start_travel_tilt(p)
    \/ start_travel_tilt_up
    \/ start_travel_tilt_down

Spec == Init /\ [][Next]_vars

\* time.time() is the wall clock: a system time adjustment makes it return
\* an earlier value than before
ClockSteppedBack ==
    /\ now - 10 \in ClockValues
    /\ now' = now - 10
    /\ UNCHANGED <<config, state, call, calls>>

NextSkew ==
    \/ Next
    \/ ClockSteppedBack

\* the estimator on a clock that can also step back
SpecSkew == Init /\ [][NextSkew]_vars

\* ------------------------------------------------------------ vocabulary
\* the last call was start_travel(target) on an estimator whose position
\* was known, and no call was made since
TravelStarted ==
    /\ call.op = "start_travel"
    /\ call.before.last_known_position # None

\* the time elapsed since the timestamp
elapsed == now - last_known_position_timestamp

\* the clock advanced and no call was made
ClockAdvanced == now' > now /\ UNCHANGED <<state, call>>

\* ---------------------------------------------------------------- claims

\* C1: after start_travel(target) from a confirmed origin, with no further
\* call, the values current_position() returns at increasing clock values
\* move monotonically toward the target (non-decreasing when closing,
\* non-increasing when opening) and never pass beyond it.
C1_MonotonicConvergence ==
    [][ (/\ TravelStarted
         /\ call.before.position_confirmed
         /\ ClockAdvanced
         /\ current_position # ZeroDivisionError
         /\ current_position' # ZeroDivisionError)
        => IF travel_direction = DIRECTION_DOWN
           THEN /\ current_position <= current_position'
                /\ current_position' <= travel_to_position
           ELSE /\ current_position >= current_position'
                /\ current_position' >= travel_to_position ]_vars

\* C2: whenever the time elapsed since start_travel(target) from a known
\* origin is at least calculate_travel_time(origin, target),
\* current_position() is exactly target.
C2_ExactArrival ==
    (/\ TravelStarted
     /\ ~call.raised
     /\ 100 * elapsed >= calculate_travel_time(last_known_position,
                                               travel_to_position))
    => current_position = travel_to_position

\* C3: in a travel that starts from or ends at position 0 with slats time
\* S > 0, the estimate has covered at most 10% of the distance while
\* elapsed < S, and exactly 10% (progress 0.1) at elapsed = S.  Positions are
\* truncated, so the 10% point is int(origin + 0.1 * (target - origin)).
C3_SlatsPhaseTenPercent ==
    LET S == position_slats_time(Self)
        relative_position == travel_to_position - last_known_position
        tenth == int(10 * last_known_position + relative_position, 10)
    IN  (/\ TravelStarted
         /\ ~call.raised
         /\ last_known_position = 0 \/ travel_to_position = 0
         /\ S > 0)
        => /\ elapsed < S =>
                IF relative_position >= 0
                THEN last_known_position <= current_position
                     /\ current_position <= tenth
                ELSE tenth <= current_position
                     /\ current_position <= last_known_position
           /\ elapsed = S => current_position = tenth

\* C4: stop() with a known position sets target_position and
\* last_known_position to the position estimated at the call, direction to
\* Stopped, position_confirmed to false, and from the call on (same clock
\* value and every later one, until the next call) is_traveling() is false;
\* nothing raises.
C4_StopFreezes ==
    (call.op = "stop" /\ call.before.last_known_position # None)
    => /\ ~call.raised
       /\ travel_to_position = call.position
       /\ last_known_position = call.position
       /\ travel_direction = STOPPED
       /\ ~position_confirmed
       /\ ~raises
       /\ ~is_traveling

\* C5: once position_reached() is true during an unconfirmed travel, it
\* stays true (and is_traveling() false) at every later clock value as long
\* as no call is made.
C5_ArrivalStable ==
    [][ (/\ ~position_confirmed
         /\ travel_direction # STOPPED
         /\ position_reached
         /\ ClockAdvanced)
        => (position_reached' /\ ~is_traveling') ]_vars

\* no later clock value changes what current_position() returns: the position
\* is confirmed, or there is nothing to extrapolate, or the travel time is over
Settled ==
    \/ position_confirmed
    \/ travel_to_position = None
    \/ last_known_position = None
    \/ 100 * elapsed > calculate_travel_time(last_known_position, travel_to_position)

\* C6: after start_travel(target) in any state (also with no position ever
\* known), with an advancing clock and no further call, eventually
\* current_position() = target, position_reached() and not is_traveling().
\* In a Settled state the three answers no longer change with the clock, so
\* "eventually" means: they are given in every Settled state.
C6_EventualArrival ==
    (call.op = "start_travel" /\ Settled)
    => /\ current_position = call.arg
       /\ position_reached
       /\ ~is_traveling

\* C7: start_travel(target) with a known position takes the position
\* estimated at the call as last_known_position, stamps the clock, sets
\* target_position = target, unconfirms, and sets direction Closing iff
\* target > that origin, Opening otherwise (also when they are equal).
C7_StartTravel ==
    TravelStarted
    => /\ last_known_position = call.position
       /\ last_known_position_timestamp = call.at
       /\ travel_to_position = call.arg
       /\ ~position_confirmed
       /\ travel_direction = IF call.arg > call.position
                             THEN DIRECTION_DOWN ELSE DIRECTION_UP

\* C8: after set_position(p), position_confirmed is true and
\* current_position() is p at every clock value until the next call,
\* whatever the direction, the target and the elapsed time.
C8_SetPositionRoundTrip ==
    call.op = "set_position"
    => /\ position_confirmed
       /\ current_position = call.arg

\* C8 witness: a confirmation arrived during a travel, the clock has moved
\* on, and extrapolating from the same fields would give another position
C8_Witness ==
    /\ call.op = "set_position"
    /\ now > call.at
    /\ travel_direction # STOPPED
    /\ calculate_position(Self, now) # call.arg
    /\ current_position = call.arg

\* C9: with both slats times 0 and full travel time T of the direction in
\* use, a travel origin -> target returns, while elapsed <= T*|target-origin|/100,
\* int(origin + (target-origin) * elapsed / (T*|target-origin|/100)).
C9_LinearInterpolation ==
    LET T == IF travel_direction = DIRECTION_DOWN
             THEN travel_time_down ELSE travel_time_up
        relative_position == travel_to_position - last_known_position
        travel_range == abs(relative_position)
    IN  (/\ TravelStarted
         /\ ~call.raised
         /\ slats_open_time = 0
         /\ slats_close_time = 0
         /\ T > 0
         /\ travel_range > 0
         /\ 100 * elapsed <= T * travel_range)
        => current_position =
               int(last_known_position * T * travel_range
                   + relative_position * elapsed * 100,
                   T * travel_range)

\* C10 as claimed: update_position(p) records p and the clock, and leaves
\* position_confirmed true if p = target_position and false otherwise,
\* whatever it was before.
C10_UpdatePositionClaimed ==
    call.op = "update_position"
    => /\ last_known_position = call.arg
       /\ last_known_position_timestamp = call.at
       /\ position_confirmed = (call.arg = call.before.travel_to_position)

\* C10 as amended: update_position(p) records p and the clock, and
\* position_confirmed is true afterwards if p = target_position and keeps
\* the value it had before the call otherwise.
C10_UpdatePosition ==
    call.op = "update_position"
    => /\ last_known_position = call.arg
       /\ last_known_position_timestamp = call.at
       /\ travel_to_position = call.before.travel_to_position
       /\ position_confirmed = (\/ call.arg = call.before.travel_to_position
                                \/ call.before.position_confirmed)

\* C10 witness: a report other than the target arrived on a confirmed
\* position, which stays confirmed
C10_Witness ==
    /\ call.op = "update_position"
    /\ call.before.position_confirmed
    /\ call.arg # call.before.travel_to_position
    /\ last_known_position = call.arg
    /\ position_confirmed

\* C11: on an estimator for which no position was ever recorded,
\* current_position() is None (not 0) at every clock value, and stop() is a
\* no-op: it raises nothing and leaves last_known_position, target_position,
\* position_confirmed, direction and the timestamp as they were.
C11_UnknownPosition ==
    /\ last_known_position = None => current_position = None
    /\ (call.op = "stop" /\ call.before.last_known_position = None)
       => (Self = call.before /\ ~call.raised)

\* C11 witness: stop() was called on a fresh estimator after the clock had
\* moved, and the clock moved on
C11_Witness ==
    /\ call.op = "stop"
    /\ call.before.last_known_position = None
    /\ call.at > 0
    /\ now > call.at
    /\ current_position = None

\* C12: start_travel(target) on an estimator with no known position leaves
\* last_known_position = target, position_confirmed true, direction Stopped,
\* and current_position() = target at every later clock value.
C12_DegenerateStart ==
    (call.op = "start_travel" /\ call.before.last_known_position = None)
    => /\ last_known_position = call.arg
       /\ position_confirmed
       /\ current_position = call.arg
       /\ travel_direction = STOPPED

\* C12 witness: a fresh estimator was told to travel, and the clock moved on
C12_Witness ==
    /\ call.op = "start_travel"
    /\ call.before.last_known_position = None
    /\ now > call.at
    /\ current_position = call.arg

\* C13: every value current_position() returns, unless None, is in 0..100
\* and lies between last_known_position and target_position (inclusive)
\* whenever both are set.
C13_PositionRange ==
    (current_position # None /\ current_position # ZeroDivisionError)
    => /\ current_position \in 0..100
       /\ (last_known_position # None /\ travel_to_position # None)
          => \/ /\ last_known_position <= current_position
                /\ current_position <= travel_to_position
             \/ /\ travel_to_position <= current_position
                /\ current_position <= last_known_position

\* C13 witness: an extrapolated position strictly between origin and target
C13_Witness ==
    /\ ~position_confirmed
    /\ travel_direction = DIRECTION_DOWN
    /\ last_known_position < current_position
    /\ current_position < travel_to_position

\* C14: current_position() never raises ZeroDivisionError, and no call does;
\* whenever remaining_travel_time <= slats_time outside the slats phase it
\* returns target_position.
C14_NoDivisionByZero ==
    /\ ~raises
    /\ ~call.raised
    /\ (/\ ~position_confirmed
        /\ last_known_position # None
        /\ travel_to_position # None
        /\ elapsed >= position_slats_time(Self)
        /\ calculate_travel_time(last_known_position, travel_to_position)
               <= 100 * position_slats_time(Self))
       => current_position = travel_to_position

\* the position lies between last_known_position and target_position
BetweenOriginAndTarget(position) ==
    \/ /\ last_known_position <= position
       /\ position <= travel_to_position
    \/ /\ travel_to_position <= position
       /\ position <= last_known_position

\* C15: when the clock read at query time is earlier than
\* last_known_position_timestamp, current_position() raises nothing and
\* returns a value between origin and target inclusive, as for elapsed 0.
C15_ClockSkewGuard ==
    (/\ now < last_known_position_timestamp
     /\ last_known_position # None
     /\ travel_to_position # None)
    => /\ ~raises
       /\ BetweenOriginAndTarget(current_position)

\* the travel time of a travel origin -> target from the full-range time T
\* and the slats time S, in hundredths of a second
TravelTimeOf(T, S, origin, target) ==
    (T - S) * abs(target - origin) + 100 * S

\* C16: a travel in progress is timed with the parameters of its commanded
\* direction: Closing with travel_time_down (and slats_close_time when it
\* touches 0), Opening with travel_time_up (and slats_open_time);
\* calculate_travel_time uses the slats time the interpolation uses, and
\* the travel has arrived once that time has elapsed.
C16_DirectionConsistentTiming ==
    LET T == IF travel_direction = DIRECTION_DOWN
             THEN travel_time_down ELSE travel_time_up
        S == IF last_known_position = 0 \/ travel_to_position = 0
             THEN (IF travel_direction = DIRECTION_DOWN
                   THEN slats_close_time ELSE slats_open_time)
             ELSE 0
        due == TravelTimeOf(T, S, last_known_position, travel_to_position)
    IN  (/\ TravelStarted
         /\ ~call.raised
         /\ last_known_position # travel_to_position)
        => /\ calculate_travel_time(last_known_position, travel_to_position) = due
           /\ 100 * elapsed > due => current_position = travel_to_position

\* C17: after stop() on an estimator with a known position,
\* last_known_position_timestamp is the clock value of the stop() call.
C17_StopStampsTime ==
    (call.op = "stop" /\ call.before.last_known_position # None)
    => last_known_position_timestamp = call.at

\* a step is a start_travel or start_travel_tilt call that started a travel
TravelStarts ==
    /\ calls' # calls
    /\ call'.op \in {"start_travel", "start_travel_tilt"}
    /\ call'.before.last_known_position # None
    /\ ~call'.raised

\* C18 as claimed: direction # Stopped implies target_position is set, and
\* when the travel was started the target was above the origin if Closing
\* and below it if Opening; no other step gives a direction or a target to
\* a travelling estimator.
C18_DirectionTargetStrict ==
    [][ travel_direction' # STOPPED
        => /\ travel_to_position' # None
           /\ IF TravelStarts
              THEN IF travel_direction' = DIRECTION_DOWN
                   THEN travel_to_position' > last_known_position'
                   ELSE travel_to_position' < last_known_position'
              ELSE UNCHANGED <<travel_direction, travel_to_position>> ]_vars

\* C18 as amended: the same, with the target above the origin if Closing and
\* at or below it if Opening.
C18_DirectionTarget ==
    [][ travel_direction' # STOPPED
        => /\ travel_to_position' # None
           /\ IF TravelStarts
              THEN IF travel_direction' = DIRECTION_DOWN
                   THEN travel_to_position' > last_known_position'
                   ELSE travel_to_position' <= last_known_position'
              ELSE UNCHANGED <<travel_direction, travel_to_position>> ]_vars

\* C18 witness: a travel was started toward the position the cover was at,
\* which gives direction Opening
C18_Witness ==
    /\ call.op \in {"start_travel", "start_travel_tilt"}
    /\ call.before.last_known_position # None
    /\ ~call.raised
    /\ call.arg = call.position
    /\ travel_direction = DIRECTION_UP
    /\ travel_to_position = last_known_position

\* C19: is_traveling() is true only with direction Opening or Closing, so it
\* holds iff exactly one of is_opening() / is_closing() holds; after
\* set_position(p) on a fresh estimator and after stop() it is false.
C19_StoppedNotTraveling ==
    /\ (~raises /\ is_traveling) => travel_direction # STOPPED
    /\ ~raises => (is_traveling <=> (is_opening # is_closing))
    /\ (call.op = "set_position" /\ call.before.last_known_position = None)
       => ~is_traveling
    /\ (call.op = "stop" /\ ~raises) => ~is_traveling

\* C20: with direction Stopped and no call made, current_position() returns
\* the same value at every later clock value.
C20_NoDriftWhileStopped ==
    [][ (/\ travel_direction = STOPPED
         /\ ClockAdvanced
         /\ current_position # ZeroDivisionError
         /\ current_position' # ZeroDivisionError)
        => current_position' = current_position ]_vars
====
